---- MODULE Spec2Model ----
(***************************************************************************)
(* The compile pipeline of sgs (src/index.js): the work queue, the         *)
(* compiler with its cache, the driver loop, and the front-matter parser.  *)
(***************************************************************************)
EXTENDS Integers, Sequences, FiniteSets, TLC

VARIABLES
    tree,       \* the source tree under <root>/src: path -> file (fixed during a run)
    outEnabled, \* config.out is set
    q,          \* Queue.q, the array behind the work queue
    cache,      \* Compiler.cache: absolute path -> compiled result
    cwd,        \* Compiler.cwd
    ctxPath,    \* ctx.path
    written,    \* relative paths written under the output directory
    pc,         \* main's position: "start", "loop", "done" or "failed"
    exitCode,   \* the exit status of the process
    computed,   \* per absolute path: the dispatches a non-dynamic compile ran (saturating)
    log,        \* what the compiler did during the last driver iteration
    lap,        \* the parity of the number of driver iterations
    enqLog,     \* queue harness: the elements enqueued, in order
    deqLog,     \* queue harness: the elements dequeued, in order
    fmLines,    \* parser harness: the key=value lines the file was made of
    fmBody,     \* parser harness: the text after the empty line
    content,    \* parser harness: the file text handed to parseContent
    parsed,     \* parser harness: what parseContent returned
    arr,        \* tween harness: the array passed to tween
    value,      \* tween harness: the value passed to tween
    tweened,    \* tween harness: what tween returned
    files,      \* content store: absolute path -> text of the content file
    contentCache, \* contentCache: absolute path -> the record object cached
    records,    \* the record objects created so far, each with its properties
    reads,      \* per absolute path: the times the file was read and parsed
    returned,   \* per absolute path: the record objects contentFromFile returned
    collection, \* the Contents a script holds: its record objects in order
    loaded,     \* the outcome of the last content(...) call
    recent,     \* the outcome of the last mostRecent call
    now,        \* the clock, in seconds
    storeCalls, \* the number of content store calls made
    dirTree,    \* include harness: the entries of src/assets and of src/assets/sub
    inclPath,   \* include harness: the path passed to include
    inclOpt,    \* include harness: the opt passed to include
    included,   \* include harness: the outcome of the include call
    contexts,   \* the sandbox context objects: the base context first, then one per document
    ctxLog      \* per document compiled: what its script found bound to content and $

treeVars == <<tree, outEnabled>>
compilerVars == <<cache, cwd, ctxPath, written, pc, exitCode, computed, log, lap>>
queueVars == <<enqLog, deqLog>>
parseVars == <<fmLines, fmBody, content, parsed>>
tweenVars == <<arr, value, tweened>>
storeVars == <<files, contentCache, records, reads, returned, collection,
               loaded, recent, now, storeCalls>>
includeVars == <<dirTree, inclPath, inclOpt, included>>
ctxVars == <<contexts, ctxLog>>
libVars == <<tweenVars, storeVars, includeVars, ctxVars>>

vars == <<treeVars, q, compilerVars, queueVars, parseVars, libVars>>

----------------------------------------------------------------------------
(* Bounds *)

\* the script calls and compile references of the whole source tree
MaxItems == 2
\* where the dispatch counter stops counting
MaxCount == 3
\* the operations of one queue-harness run
MaxOps == 4
\* the tasks the work queue holds at most: a run that would exceed it is not followed
MaxQueue == 3
\* the key=value lines of a parsed file
MaxLines == 2
\* the characters of a file text of any shape
MaxText == 4
\* the elements of an array passed to tween
MaxArr == 3
\* the content store calls of a run
MaxCalls == 3
\* the seconds the clock advances during a run
MaxTicks == 1
\* the entries of an included directory
MaxEntries == 2
\* the documents compiled one after the other
MaxDocs == 2

\* new Date() as the process starts, in seconds; the dates of the content files
\* are 1 and 2
FirstNow == 3

----------------------------------------------------------------------------
(* The source tree *)

SrcDir == "src"
IndexRelPath == "index.html"
Paths == {"index.html", "a.html", "s.CSS", "x.xyz"}
HtmlPaths == {"index.html", "a.html"}
Dirs == {"", SrcDir}

\* path.extname on the paths of the model
extname(p) ==
    CASE p = "index.html" -> ".html"
      [] p = "a.html"     -> ".html"
      [] p = "s.CSS"      -> ".CSS"
      [] p = "x.xyz"      -> ".xyz"

\* String.prototype.toLowerCase on the extensions of the model
toLowerCase(e) == IF e = ".CSS" THEN ".css" ELSE e

\* path.join(dir, rel): the absolute path, kept as the pair
join(dir, rel) == <<dir, rel>>

Keys == Dirs \X Paths

Undefined == [kind |-> "undefined"]

\* A JavaScript object used as a map: obj[k], undefined when k was never set
Get(obj, k) == IF k \in DOMAIN obj THEN obj[k] ELSE Undefined

\* obj[k] = v
Put(obj, k, v) == [x \in DOMAIN obj \cup {k} |-> IF x = k THEN v ELSE obj[x]]

\* {}
EmptyObject == [x \in {} |-> 0]

\* One <script compile> element: a call of a sandbox binding
Calls == [op : {"include", "compile", "compileDyn"}, arg : Paths]

SeqsUpTo(S, n) == UNION {[1..k -> S] : k \in 0..n}

\* F(v), with v evaluated once
With(v, F(_)) == CHOOSE y \in {F(x) : x \in {v}} : TRUE

\* An .html file: its script calls in document order, its compile references in
\* the order the three scans meet them, and whether its rendered text is empty.
\* Another file: only whether it is empty.
File(calls, refs, blank) == [calls |-> calls, refs |-> refs, blank |-> blank]

----------------------------------------------------------------------------
(* Values *)

Str(blank) == [kind |-> "string", empty |-> blank]

\* JavaScript truthiness of a cache slot: undefined and "" are falsy
Truthy(v) == v.kind = "string" /\ ~v.empty

----------------------------------------------------------------------------
(* Queue *)

\* Queue.enqueue: Array.prototype.unshift
enqueue(queue, elem) == <<elem>> \o queue

\* A queue that removes at the end it inserts at
dequeueShift(queue) == [elem |-> queue[1], rest |-> Tail(queue)]

\* Queue.dequeue: Array.prototype.pop, the element returned and the array left
dequeue(queue) ==
    [elem |-> queue[Len(queue)], rest |-> SubSeq(queue, 1, Len(queue) - 1)]

\* Queue.isEmpty
isEmpty(queue) == Len(queue) = 0

----------------------------------------------------------------------------
(* Compiler *)

\* What one call of compile or include works on: the compiler's cache, the
\* queue, the dispatch counters and the log, with the outcome of the call
\* (ok: it returned, ret: what it returned, ran: the extension dispatch ran).
Machine(c, queue, n, l) ==
    [cache |-> c, q |-> queue, computed |-> n, log |-> l,
     ok |-> TRUE, ret |-> Undefined, ran |-> FALSE]

\* if (this.cache[absPath]): the slot holds a truthy value
cacheHit(c, absPath) == Truthy(Get(c, absPath))

\* A compiler that stores every result, dynamic or not
shouldCacheAlways(dynamic) == TRUE

\* if (!opts.dynamic): the result is stored
shouldCache(dynamic) == ~dynamic

\* if (!this.cache[path.join(this.cwd, ref)]): the reference is enqueued
shouldEnqueueRef(c, absPath) == ~Truthy(Get(c, absPath))

Bump(n) == IF n < MaxCount THEN n + 1 ELSE MaxCount

Count(n, absPath) == IF absPath \in DOMAIN n THEN n[absPath] ELSE 0

\* A throw that leaves a task behind in the queue
throwAfterEnqueue(m) ==
    [m EXCEPT !.ok = FALSE, !.ret = Undefined,
              !.q = enqueue(@, <<SrcDir, IndexRelPath>>)]

\* throw: the call ends without a value; what it changed before stays changed
throw(m) == [m EXCEPT !.ok = FALSE, !.ret = Undefined]

\* An include that enqueues under the compiler's initial cwd
includeAtRoot(m, dir, includePath) ==
    [m EXCEPT !.q = enqueue(@, <<"", includePath>>),
              !.ret = Str(FALSE),
              !.log = Append(@, [ev |-> "include", key |-> join(dir, includePath)])]

\* Compiler.include on a file: the task is enqueued under the current cwd
include(m, dir, includePath) ==
    [m EXCEPT !.q = enqueue(@, <<dir, includePath>>),
              !.ret = Str(FALSE),
              !.log = Append(@, [ev |-> "include", key |-> join(dir, includePath)])]

\* The three compile-reference scans of an .html document, one reference after
\* the other: the marker is removed and the path enqueued unless cached
RECURSIVE scanRefs(_, _, _)
scanRefs(m, dir, refs) ==
    IF refs = <<>> THEN m
    ELSE LET ref == Head(refs)
             absPath == join(dir, ref)
         IN With(IF shouldEnqueueRef(m.cache, absPath)
                 THEN enqueue(m.q, <<dir, ref>>)
                 ELSE m.q,
                 LAMBDA next :
                   scanRefs([m EXCEPT !.q = next,
                                      !.log = Append(@, [ev |-> "ref", key |-> absPath,
                                                         entry |-> Get(m.cache, absPath),
                                                         enq |-> Len(next) - Len(m.q)])],
                            dir, Tail(refs)))

\* result is returned, and stored unless the call is dynamic
return(m, absPath, result, dynamic) ==
    [m EXCEPT !.cache = IF shouldCache(dynamic)
                        THEN Put(@, absPath, result)
                        ELSE @,
              !.ret = result]

RECURSIVE compileBody(_, _, _, _, _)
RECURSIVE runScripts(_, _, _, _)

\* Compiler.compile, with the call written to the log. active: the paths whose
\* compile is on the call stack
compile(m, dir, filePath, dynamic, active) ==
    LET absPath == join(dir, filePath)
    IN With(compileBody([m EXCEPT !.ran = FALSE], dir, filePath, dynamic, active),
            LAMBDA r :
              [r EXCEPT !.log = Append(@, [ev |-> "compile", key |-> absPath,
                                           dynamic |-> dynamic,
                                           before |-> Get(m.cache, absPath),
                                           after |-> Get(r.cache, absPath),
                                           ran |-> r.ran, ok |-> r.ok,
                                           ret |-> r.ret,
                                           enqueued |-> Len(r.q) - Len(m.q)])])

\* Compiler.compileDyn
compileDyn(m, dir, filePath, active) == compile(m, dir, filePath, TRUE, active)

\* data('script[compile]').each(...): the scripts run in document order, each
\* calling one binding of the sandbox context; a throw ends the compile
runScripts(m, dir, calls, active) ==
    IF calls = <<>> \/ ~m.ok THEN m
    ELSE LET c == Head(calls)
         IN With(CASE c.op = "include" -> include(m, dir, c.arg)
                   [] c.op = "compile" -> compile(m, dir, c.arg, FALSE, active)
                   [] c.op = "compileDyn" -> compileDyn(m, dir, c.arg, active),
                 LAMBDA m1 : runScripts(m1, dir, Tail(calls), active))

\* The body of Compiler.compile. A compile of a path whose compile is already
\* on the call stack finds no cached result and runs the same scripts again:
\* the recursion ends in the engine's RangeError, after many dispatches.
compileBody(m, dir, filePath, dynamic, active) ==
    LET absPath == join(dir, filePath)
        ext == toLowerCase(extname(filePath))
    IN IF cacheHit(m.cache, absPath)
       THEN [m EXCEPT !.ret = Get(m.cache, absPath)]
       ELSE IF absPath \in active
       THEN throw([m EXCEPT !.ran = TRUE,
                            !.computed = IF dynamic THEN @
                                         ELSE Put(@, absPath, MaxCount)])
       ELSE LET m0 == [m EXCEPT !.ran = TRUE,
                                !.computed = IF dynamic THEN @
                                             ELSE Put(@, absPath, Bump(Count(@, absPath)))]
            IN CASE ext = ".html" ->
                    With(runScripts(m0, dir, tree[filePath].calls,
                                    active \cup {absPath}),
                         LAMBDA m1 :
                           IF ~m1.ok THEN throw([m1 EXCEPT !.ran = TRUE])
                           ELSE return([scanRefs(m1, dir, tree[filePath].refs)
                                            EXCEPT !.ran = TRUE],
                                       absPath, Str(tree[filePath].blank), dynamic))
                 [] ext \in {".css", ".png", ".jpg", ".jpeg"} ->
                    return(m0, absPath, Str(tree[filePath].blank), dynamic)
                 [] OTHER -> throw(m0)

----------------------------------------------------------------------------
(* Driver *)

\* A driver that goes on with the next task after a failure
afterFailureContinue == "loop"

\* catch (err): process.exit(1) ends the run
afterFailure == "failed"

\* One iteration of the driver loop body
Task == dequeue(q).elem

Iteration ==
    compile(Machine(cache, dequeue(q).rest, computed, <<>>),
            Task[1], Task[2], FALSE, {})

\* An iteration whose compile returns: the result is written when config.out is set
DriverCompiled ==
    /\ pc = "loop"
    /\ ~isEmpty(q)
    /\ \E it \in {Iteration} :
        /\ it.ok
        /\ Len(it.q) <= MaxQueue
        /\ q' = it.q
        /\ cache' = it.cache
        /\ computed' = it.computed
        /\ log' = it.log
    /\ cwd' = Task[1]
    /\ ctxPath' = join("/", Task[2])
    /\ lap' = 1 - lap
    /\ written' = IF outEnabled THEN written \cup {Task[2]} ELSE written
    /\ UNCHANGED <<treeVars, pc, exitCode, queueVars, parseVars, libVars>>

\* An iteration whose compile throws: the error is logged and the process exits
DriverFailed ==
    /\ pc = "loop"
    /\ ~isEmpty(q)
    /\ \E it \in {Iteration} :
        /\ ~it.ok
        /\ Len(it.q) <= MaxQueue
        /\ q' = it.q
        /\ cache' = it.cache
        /\ computed' = it.computed
        /\ log' = it.log
    /\ cwd' = Task[1]
    /\ ctxPath' = join("/", Task[2])
    /\ lap' = 1 - lap
    /\ pc' = afterFailure
    /\ exitCode' = 1
    /\ UNCHANGED <<treeVars, written, queueVars, parseVars, libVars>>

\* while (!compileQueue.isEmpty()) ends
DriverExit ==
    /\ pc = "loop"
    /\ isEmpty(q)
    /\ pc' = "done"
    /\ UNCHANGED <<treeVars, q, cache, cwd, ctxPath, written, exitCode,
                   computed, log, lap, queueVars, parseVars, libVars>>

\* The source trees of the model: index.html, a.html, s.CSS and x.xyz, with the
\* script calls, compile references and emptiness given
TreeOf(ci, ri, ca, ra, ba, bs) ==
    [p \in Paths |->
        CASE p = "index.html" -> File(ci, ri, FALSE)
          [] p = "a.html"     -> File(ca, ra, ba)
          [] p = "s.CSS"      -> File(<<>>, <<>>, bs)
          [] OTHER            -> File(<<>>, <<>>, FALSE)]

\* Nothing compiled and nothing written yet: the compiler's cache is {}, its cwd ''
CompilerInit ==
    /\ cache = EmptyObject
    /\ cwd = ""
    /\ ctxPath = join("/", "")
    /\ written = {}
    /\ exitCode = 0
    /\ computed = EmptyObject
    /\ log = <<>>
    /\ lap = 0

QueueIdle == enqLog = <<>> /\ deqLog = <<>>

ParseIdle ==
    /\ fmLines = <<>>
    /\ fmBody = <<>>
    /\ content = <<>>
    /\ parsed = [status |-> "idle"]

\* const contentCache = {}: no content file loaded
StoreIdle ==
    /\ files = EmptyObject
    /\ contentCache = EmptyObject
    /\ records = <<>>
    /\ reads = EmptyObject
    /\ returned = EmptyObject
    /\ collection = <<>>
    /\ loaded = [status |-> "idle"]
    /\ recent = [status |-> "idle"]
    /\ now = FirstNow
    /\ storeCalls = 0

\* The opt argument of include: left out, or an object with or without an
\* excludeExt array
NoOpt == [defined |-> FALSE, hasExclude |-> FALSE, excludeExt |-> <<>>]
OptObject(hasExclude, excludeExt) ==
    [defined |-> TRUE, hasExclude |-> hasExclude, excludeExt |-> excludeExt]

\* No include of a directory has been called
IncludeIdle ==
    /\ dirTree = [top |-> <<>>, sub |-> <<>>]
    /\ inclPath = <<>>
    /\ inclOpt = NoOpt
    /\ included = [status |-> "idle"]

\* const ctx = {...}: the bindings of the base context that documents rebind
BaseContext == [content |-> "accessor", dollar |-> "cheerio", x |-> "undefined"]

\* vm.createContext(ctx): the base context alone, no document compiled
CtxIdle ==
    /\ contexts = <<BaseContext>>
    /\ ctxLog = <<>>

\* Nothing of the sandbox helpers has been called
LibIdle ==
    /\ arr = <<>>
    /\ value = 0
    /\ tweened = [status |-> "idle"]
    /\ StoreIdle
    /\ IncludeIdle
    /\ CtxIdle

NoTree == TreeOf(<<>>, <<>>, <<>>, <<>>, FALSE, FALSE)

\* The process as it starts
Init ==
    /\ tree = NoTree
    /\ outEnabled = FALSE
    /\ q = <<>>
    /\ pc = "start"
    /\ CompilerInit
    /\ QueueIdle
    /\ ParseIdle
    /\ LibIdle

\* main() up to its loop, for every project of the model: the configuration and
\* the source tree are what the project directory holds, the queue is seeded
\* with the entry file and the compiler is constructed
Setup ==
    /\ pc = "start"
    /\ \E ci \in SeqsUpTo(Calls, MaxItems) :
       \E ri \in SeqsUpTo(Paths, MaxItems - Len(ci)) :
       \E ca \in SeqsUpTo(Calls, MaxItems - Len(ci) - Len(ri)) :
       \E ra \in SeqsUpTo(Paths, MaxItems - Len(ci) - Len(ri) - Len(ca)) :
       \E ba \in IF ra = <<>> THEN BOOLEAN ELSE {FALSE} :
       \E bs \in BOOLEAN :
          tree' = TreeOf(ci, ri, ca, ra, ba, bs)
    /\ outEnabled' \in BOOLEAN
    /\ q' = enqueue(<<>>, <<SrcDir, IndexRelPath>>)
    /\ pc' = "loop"
    /\ UNCHANGED <<cache, cwd, ctxPath, written, exitCode, computed, log, lap,
                   queueVars, parseVars, libVars>>

Next == Setup \/ DriverCompiled \/ DriverFailed \/ DriverExit

Spec == Init /\ [][Next]_vars

\* The loop is sequential code: it takes its next iteration as long as there is one
FairSpec == Spec /\ WF_vars(Next)

----------------------------------------------------------------------------
(* The work queue on its own: any interleaving of enqueue and dequeue *)

Tasks == {<<SrcDir, p>> : p \in Paths}

\* new Queue(), before any operation
QueueInit ==
    /\ tree = NoTree
    /\ outEnabled = FALSE
    /\ q = <<>>
    /\ pc = "start"
    /\ CompilerInit
    /\ QueueIdle
    /\ ParseIdle
    /\ LibIdle

QEnqueue ==
    /\ Len(enqLog) < MaxOps
    /\ \E t \in Tasks :
        /\ q' = enqueue(q, t)
        /\ enqLog' = Append(enqLog, t)
    /\ UNCHANGED <<treeVars, compilerVars, deqLog, parseVars, libVars>>

\* dequeue, called as the driver calls it: on a queue that is not empty
QDequeue ==
    /\ ~isEmpty(q)
    /\ q' = dequeue(q).rest
    /\ deqLog' = Append(deqLog, dequeue(q).elem)
    /\ UNCHANGED <<treeVars, compilerVars, enqLog, parseVars, libVars>>

QueueNext == QEnqueue \/ QDequeue

QueueSpec == QueueInit /\ [][QueueNext]_vars

----------------------------------------------------------------------------
(* Claims about the compiler, the queue and the driver *)

CompileEvents == {i \in DOMAIN log : log[i].ev = "compile"}
RefEvents == {i \in DOMAIN log : log[i].ev = "ref"}

\* C1: a compile reference met by a scan is enqueued if and only if the cache
\* holds no result for its path at that moment, so a path that was compiled
\* and cached is not enqueued again by a later discovery.
C1_RefEnqueuedIffNoCachedResult ==
    \A i \in RefEvents : (log[i].enq = 1) <=> (log[i].entry = Undefined)

\* The files the entry file reaches over compile references of .html files and
\* include calls of their scripts
Edges(p) ==
    IF p \in HtmlPaths
    THEN {tree[p].refs[i] : i \in DOMAIN tree[p].refs}
         \cup {tree[p].calls[i].arg :
                 i \in {j \in DOMAIN tree[p].calls : tree[p].calls[j].op = "include"}}
    ELSE {}

RECURSIVE Closure(_)
Closure(S) ==
    LET T == S \cup UNION {Edges(p) : p \in S}
    IN IF T = S THEN S ELSE Closure(T)

Reachable == Closure({IndexRelPath})

\* C2: when the loop has ended without a failure, every file reachable from the
\* entry file has a result in the cache and, with output enabled, was written.
C2_ReachableCompiledAndWritten ==
    pc = "done" =>
        \A p \in Reachable :
            /\ Get(cache, join(SrcDir, p)) # Undefined
            /\ outEnabled => p \in written

\* The queue bound stops the model here; the program would go on
QueueFull ==
    /\ pc = "loop"
    /\ ~isEmpty(q)
    /\ Len(Iteration.q) > MaxQueue

\* C3: the driver loop terminates for every source tree: the run reaches "done"
\* or "failed" (or leaves the part of the run the model follows).
C3_DriverTerminates == <>(pc \in {"done", "failed"} \/ QueueFull)

\* C4: a dynamic compile leaves the cache slot of its path as it found it, and
\* a non-dynamic compile that finds no entry computes a result and stores it.
C4_DynamicNeverStores ==
    \A i \in CompileEvents :
        /\ log[i].dynamic => log[i].after = log[i].before
        /\ (~log[i].dynamic /\ log[i].before = Undefined /\ log[i].ok) =>
               (log[i].ran /\ log[i].after = log[i].ret /\ log[i].after # Undefined)

\* C4 happens: compileDyn of a path without a cache entry returned, and a later
\* non-dynamic compile of the same path computed and stored its result.
C4_Witness ==
    \E i, j \in CompileEvents :
        /\ i < j
        /\ log[i].key = log[j].key
        /\ log[i].dynamic /\ log[i].ok /\ log[i].ran
        /\ log[i].before = Undefined /\ log[i].after = Undefined
        /\ ~log[j].dynamic /\ log[j].ok /\ log[j].ran
        /\ log[j].before = Undefined /\ log[j].after # Undefined

\* C5: every dynamic compile runs the extension dispatch, also for a path that
\* has a cached result.
C5_DynamicAlwaysRecomputes ==
    \A i \in CompileEvents : log[i].dynamic => log[i].ran

\* C6: in a run that has not failed, the dispatch of a non-dynamic compile ran
\* at most once for every path.
C6_ComputedAtMostOnce ==
    pc # "failed" => \A k \in Keys : Count(computed, k) <= 1

\* C8: once a compile has failed (the exit status is 1) the run is in its
\* failed final state and no step of the driver is possible any more.
C8_FailureEndsRun ==
    exitCode = 1 => (pc = "failed" /\ ~ENABLED Next)

\* C8 happens: the run failed with tasks left in the queue.
C8_Witness ==
    exitCode = 1 /\ pc = "failed" /\ ~isEmpty(q)

\* C9: a run that failed on the unsupported x.xyz has written no output file.
C9_NoPartialOutput ==
    (pc = "failed" /\ ctxPath = join("/", "x.xyz")) => written = {}

\* C7: the tasks dequeued are, in order, the first tasks enqueued, and the
\* queue is empty exactly when every enqueued task has been dequeued.
C7_QueueIsFifo ==
    /\ Len(deqLog) <= Len(enqLog)
    /\ deqLog = SubSeq(enqLog, 1, Len(deqLog))
    /\ isEmpty(q) <=> Len(deqLog) = Len(enqLog)

\* C7 happens: two different tasks were dequeued while a later one waits.
C7_Witness ==
    /\ Len(deqLog) >= 2
    /\ deqLog[1] # deqLog[2]
    /\ ~isEmpty(q)

\* C14: a compile of x.xyz, whose extension is not in the dispatch table,
\* throws and changes nothing: the cache has no entry for the path before and
\* after, and the call enqueued nothing; a cache slot changes only in a compile
\* that returns.
C14_UnsupportedChangesNothing ==
    /\ \A i \in CompileEvents :
          /\ log[i].key[2] = "x.xyz" =>
                /\ ~log[i].ok
                /\ log[i].ran
                /\ log[i].ret = Undefined
                /\ log[i].before = Undefined
                /\ log[i].after = Undefined
                /\ log[i].enqueued = 0
          /\ log[i].after # log[i].before => log[i].ok
    /\ \A k \in DOMAIN cache : k[2] # "x.xyz"

\* C14 happens: a compile of x.xyz threw while the cache held results and the
\* queue held tasks.
C14_Witness ==
    /\ \E i \in CompileEvents : log[i].key[2] = "x.xyz" /\ ~log[i].ok
    /\ cache # EmptyObject
    /\ ~isEmpty(q)

\* C20: every task in the queue has the source root as its base directory, the
\* compiler's cwd is the source root once the loop has taken a task, and every
\* compile, include and reference scan ran, and every cache key was stored,
\* under the source root.
C20_TasksUnderSourceRoot ==
    /\ \A i \in DOMAIN q : q[i][1] = SrcDir
    /\ \A i \in DOMAIN log : log[i].key[1] = SrcDir
    /\ \A k \in DOMAIN cache : k[1] = SrcDir
    /\ log # <<>> => cwd = SrcDir

\* C20 happens: the loop dequeued a task that an include had enqueued, and
\* its compile enqueued a reference.
C20_Witness ==
    /\ \E i \in DOMAIN log : log[i].ev = "ref" /\ log[i].enq = 1
    /\ \E i \in CompileEvents : log[i].key = join(SrcDir, "a.html") /\ log[i].ok
    /\ ~isEmpty(q)
    /\ cwd = SrcDir
    /\ join(SrcDir, IndexRelPath) \in DOMAIN cache
    /\ \E p \in HtmlPaths : \E j \in DOMAIN tree[p].calls : tree[p].calls[j].op = "include"

----------------------------------------------------------------------------
(* Content: parseContent. A text is the sequence of its characters. *)

\* String.prototype.substr(start, length)
substr(text, start, length) ==
    SubSeq(text, start + 1, IF start + length < Len(text) THEN start + length ELSE Len(text))

\* String.prototype.substr(start)
substrFrom(text, start) == SubSeq(text, start + 1, Len(text))

\* The property name content
ContentKey == <<"c", "o", "n", "t", "e", "n", "t">>

\* A setext heading underline of level 1: a line of = only
IsUnderline(line) == line # <<>> /\ \A i \in DOMAIN line : line[i] = "="

\* The open paragraph, if any, is written out
closeParagraph(st) ==
    IF st.open
    THEN [st EXCEPT !.out = @ \o <<"<p>">> \o st.para \o <<"</p>", "\n">>,
                    !.open = FALSE, !.para = <<>>]
    ELSE st

\* The end of a line: a blank line closes the paragraph, an underline turns it
\* into a heading, another line continues or opens a paragraph
endLine(st) ==
    IF st.line = <<>> THEN closeParagraph(st)
    ELSE IF st.open /\ IsUnderline(st.line)
    THEN [st EXCEPT !.out = @ \o <<"<h1>">> \o st.para \o <<"</h1>", "\n">>,
                    !.open = FALSE, !.para = <<>>, !.line = <<>>]
    ELSE IF st.open
    THEN [st EXCEPT !.para = @ \o <<"\n">> \o st.line, !.line = <<>>]
    ELSE [st EXCEPT !.para = st.line, !.open = TRUE, !.line = <<>>]

RECURSIVE renderFrom(_, _)
renderFrom(text, st) ==
    IF text = <<>> THEN closeParagraph(endLine(st)).out
    ELSE IF Head(text) = "\n" THEN renderFrom(Tail(text), endLine(st))
    ELSE renderFrom(Tail(text), [st EXCEPT !.line = Append(@, Head(text))])

\* writer.render(reader.parse(text)): commonmark on texts of letters, digits, =
\* and line breaks, which hold paragraphs and setext headings only. The HTML is
\* the sequence of its tags and characters.
render(text) ==
    renderFrom(text, [out |-> <<>>, para |-> <<>>, line |-> <<>>, open |-> FALSE])

\* A parser that ends a key at every =, in a value too
caseEqualsAnywhere(text, i, st) ==
    [st EXCEPT !.readingKey = FALSE,
               !.key = substr(text, st.mark, i - st.mark),
               !.mark = i + 1,
               !.readingValue = TRUE]

\* case '=': the key ends here when a key is being read
caseEquals(text, i, st) ==
    IF st.readingKey
    THEN [st EXCEPT !.readingKey = FALSE,
                    !.key = substr(text, st.mark, i - st.mark),
                    !.mark = i + 1,
                    !.readingValue = TRUE]
    ELSE st

\* case '\n' while a value is being read: the field is stored
caseNewline(text, i, st) ==
    [st EXCEPT !.readingValue = FALSE,
               !.parsed = Put(@, st.key, substr(text, st.mark, i - st.mark)),
               !.mark = i + 1,
               !.readingKey = TRUE]

\* The for loop of parseContent from index i on (i counts from 0); a line break
\* met while a key is being read sets content and ends the loop
RECURSIVE parseLoop(_, _, _)
parseLoop(text, i, st) ==
    IF i >= Len(text) THEN st
    ELSE CASE text[i + 1] = "=" -> parseLoop(text, i + 1, caseEquals(text, i, st))
           [] text[i + 1] = "\n" ->
                IF st.readingKey
                THEN [st EXCEPT !.parsed = Put(@, ContentKey, substrFrom(text, st.mark))]
                ELSE parseLoop(text, i + 1, caseNewline(text, i, st))
           [] OTHER -> parseLoop(text, i + 1, st)

\* parseContent: the fields and the rendered content, or the TypeError of
\* reader.parse(undefined) when the loop set no content
parseContent(text) ==
    With(parseLoop(text, 0, [readingKey |-> TRUE, readingValue |-> FALSE,
                             key |-> <<>>, mark |-> 0, parsed |-> EmptyObject]).parsed,
         LAMBDA obj :
           IF ContentKey \in DOMAIN obj
           THEN [status |-> "returned",
                 obj |-> Put(obj, ContentKey, render(obj[ContentKey]))]
           ELSE [status |-> "threw"])

\* The files of the parser harness: key=value lines, an empty line, a body
FmKeys == {<<>>, <<"a">>, <<"b">>, ContentKey}
FmValues == {<<>>, <<"1">>, <<"2">>, <<"1", "=", "2">>}
Bodies ==
    {<<>>,
     <<"B", "O", "D", "Y">>,
     <<"a", "=", "1", "\n", "b">>,
     <<"b", "=", "2", "\n">>,
     <<"a", "\n", "=", "\n">>,
     <<"\n", "a", "\n", "\n", "b">>}

RECURSIVE Format(_, _)
Format(lines, body) ==
    IF lines = <<>> THEN <<"\n">> \o body
    ELSE Head(lines)[1] \o <<"=">> \o Head(lines)[2] \o <<"\n">>
         \o Format(Tail(lines), body)

ParseInit ==
    /\ tree = NoTree
    /\ outEnabled = FALSE
    /\ q = <<>>
    /\ pc = "start"
    /\ CompilerInit
    /\ QueueIdle
    /\ fmLines \in SeqsUpTo(FmKeys \X FmValues, MaxLines)
    /\ fmBody \in Bodies
    /\ content = Format(fmLines, fmBody)
    /\ parsed = [status |-> "idle"]
    /\ LibIdle

\* contentFromFile hands the file text to parseContent
Parse ==
    /\ parsed.status = "idle"
    /\ parsed' = parseContent(content)
    /\ UNCHANGED <<treeVars, q, compilerVars, queueVars, fmLines, fmBody, content,
                   libVars>>

ParseSpec == ParseInit /\ [][Parse]_vars

----------------------------------------------------------------------------
(* Claims about parseContent *)

LastLine(lines, k) ==
    lines[CHOOSE i \in DOMAIN lines :
            /\ lines[i][1] = k
            /\ \A j \in DOMAIN lines : lines[j][1] = k => j <= i]

FieldKeys(lines) == {lines[i][1] : i \in DOMAIN lines}

Example ==
    <<"a", "=", "1", "\n", "b", "=", "2", "\n", "\n", "B", "O", "D", "Y">>

----------------------------------------------------------------------------
(* parseContent on texts of any shape *)

TextChars == {"a", "=", "\n"}

ParseTextInit ==
    /\ tree = NoTree
    /\ outEnabled = FALSE
    /\ q = <<>>
    /\ pc = "start"
    /\ CompilerInit
    /\ QueueIdle
    /\ fmLines = <<>>
    /\ fmBody = <<>>
    /\ content \in SeqsUpTo(TextChars, MaxText)
    /\ parsed = [status |-> "idle"]
    /\ LibIdle

ParseTextSpec == ParseTextInit /\ [][Parse]_vars

\* C15: parsing returns for every text, with a body; the empty file yields no
\* field and the empty body, and the file a=a with its line break yields the
\* field a and the empty body.
C15_ParsingSucceeds ==
    parsed.status # "idle" =>
        /\ parsed.status = "returned"
        /\ ContentKey \in DOMAIN parsed.obj
        /\ content = <<>> => parsed.obj = Put(EmptyObject, ContentKey, <<>>)
        /\ content = <<"a", "=", "a", "\n">> =>
               parsed.obj = Put(Put(EmptyObject, <<"a">>, <<"a">>), ContentKey, <<>>)

----------------------------------------------------------------------------
(* tween *)

\* Array.prototype.slice(): a copy of the array
slice(a) == a

\* Array.prototype.splice(at, 0, v): v inserted before the element at index at
splice(a, at, v) ==
    SubSeq(a, 1, IF at < Len(a) THEN at ELSE Len(a))
    \o <<v>> \o SubSeq(a, (IF at < Len(a) THEN at ELSE Len(a)) + 1, Len(a))

\* for (let i = 0; i < newLen-1; i+=2) arrCopy.splice(i+1, 0, value)
RECURSIVE tweenLoop(_, _, _, _)
tweenLoop(a, i, newLen, v) ==
    IF i < newLen - 1 THEN tweenLoop(splice(a, i + 1, v), i + 2, newLen, v) ELSE a

\* A tween that inserts into the array it was given
tweenInPlace(a, v) ==
    With(tweenLoop(a, 0, (Len(a) * 2) - 1, v),
         LAMBDA r : [arr |-> r, result |-> r])

\* ctx.tween: the array passed as it is after the call, and the array returned
tween(a, v) ==
    [arr |-> a, result |-> tweenLoop(slice(a), 0, (Len(a) * 2) - 1, v)]

TweenElems == {1, 2, 3}
TweenValues == {0, 1}

TweenInit ==
    /\ tree = NoTree
    /\ outEnabled = FALSE
    /\ q = <<>>
    /\ pc = "start"
    /\ CompilerInit
    /\ QueueIdle
    /\ ParseIdle
    /\ arr \in SeqsUpTo(TweenElems, MaxArr)
    /\ value \in TweenValues
    /\ tweened = [status |-> "idle"]
    /\ StoreIdle
    /\ IncludeIdle
    /\ CtxIdle

\* A script calls tween(arr, value)
Tween ==
    /\ tweened.status = "idle"
    /\ \E r \in {tween(arr, value)} :
        /\ arr' = r.arr
        /\ tweened' = [status |-> "returned", of |-> arr, result |-> r.result]
    /\ UNCHANGED <<treeVars, q, compilerVars, queueVars, parseVars, value, storeVars,
                   includeVars, ctxVars>>

TweenSpec == TweenInit /\ [][Tween]_vars

\* C13: tween leaves the array it was given as it was; of an array of n >= 2
\* elements it returns 2n-1 elements, the given ones in order at every other
\* position from the first and the value between them; of an array of at most
\* one element it returns an equal array. tween([1,2,3],0) = [1,0,2,0,3].
C13_TweenInterleaves ==
    tweened.status = "returned" =>
        LET a == tweened.of
            r == tweened.result
            n == Len(a)
        IN /\ arr = a
           /\ n >= 2 =>
                /\ Len(r) = (2 * n) - 1
                /\ \A i \in 1..n : r[(2 * i) - 1] = a[i]
                /\ \A i \in 1..(n - 1) : r[2 * i] = value
           /\ n <= 1 => r = a
           /\ (a = <<1, 2, 3>> /\ value = 0) => r = <<1, 0, 2, 0, 3>>

\* C13 happens: tween([1,2,3], 0) returned.
C13_Witness ==
    /\ tweened.status = "returned"
    /\ tweened.of = <<1, 2, 3>>
    /\ value = 0
    /\ Len(tweened.result) = 5

----------------------------------------------------------------------------
(* Content store: contentFromFile, contentFromDirectory, Contents. A text or a
   path is the sequence of its characters, a run of characters other than =,
   line break, / and . written as one element. *)

\* String.prototype.lastIndexOf(ch): the last index, counted from 0, or -1
lastIndexOf(text, ch) ==
    IF \E i \in DOMAIN text : text[i] = ch
    THEN (CHOOSE i \in DOMAIN text :
            text[i] = ch /\ \A j \in DOMAIN text : text[j] = ch => j <= i) - 1
    ELSE -1

\* path.basename
basename(p) == substrFrom(p, lastIndexOf(p, "/") + 1)

\* The normalisation of path.join: a leading ./ is dropped
RECURSIVE normalize(_)
normalize(p) ==
    IF Len(p) >= 2 /\ p[1] = "." /\ p[2] = "/"
    THEN normalize(SubSeq(p, 3, Len(p)))
    ELSE p

FileNameKey == <<"fileName">>
BaseFileNameKey == <<"baseFileName">>
RelPathKey == <<"relPath">>

\* parsed.fileName, parsed.baseFileName and parsed.relPath are assigned
derive(obj, relPath) ==
    LET extIdx == lastIndexOf(relPath, ".")
    IN Put(Put(Put(obj,
                   FileNameKey,
                   IF extIdx < 0 THEN basename(relPath)
                   ELSE basename(substr(relPath, 0, extIdx))),
               BaseFileNameKey,
               IF extIdx < 0 THEN relPath ELSE substr(relPath, 0, extIdx)),
           RelPathKey, relPath)

\* What a call into the content store works on: contentCache, the record
\* objects and the read counters, with the outcome of the call
Store(c, r, n, ids) ==
    [cache |-> c, records |-> r, reads |-> n, returned |-> ids,
     ok |-> TRUE, ret |-> 0]

\* The end of contentFromFile: the name fields are assigned on the record
\* object, which is returned
attach(st, id, absPath, relPath) ==
    [st EXCEPT !.records[id] = derive(@, relPath),
               !.returned = Put(@, absPath,
                                (IF absPath \in DOMAIN st.returned
                                 THEN st.returned[absPath] ELSE {}) \cup {id}),
               !.ret = id]

\* contentFromFile
contentFromFile(st, dirPath, relPath) ==
    LET absPath == join(dirPath, normalize(relPath))
    IN IF absPath \in DOMAIN st.cache
       THEN attach(st, st.cache[absPath], absPath, relPath)
       ELSE With(parseContent(files[absPath]),
                 LAMBDA p :
                   LET st1 == [st EXCEPT !.reads = Put(@, absPath, Bump(Count(@, absPath)))]
                       id == Len(st.records) + 1
                   IN IF p.status = "threw" THEN [st1 EXCEPT !.ok = FALSE]
                      ELSE attach([st1 EXCEPT !.records = Append(@, p.obj),
                                              !.cache = Put(@, absPath, id)],
                                  id, absPath, relPath))

\* The content files of the model: three posts, a text file, and a file of
\* key=value lines only
PostsDir == <<"posts">>
PostFiles == <<<<"draft", ".", "md">>, <<"new", ".", "md">>, <<"old", ".", "md">>>>
OldPost == <<"posts", "/", "old", ".", "md">>
NotePath == <<"note", ".", "txt">>
BadPath == <<"bad", ".", "md">>

\* fs.statSync(filePath).isDirectory()
isDirectory(absPath) == absPath = join(SrcDir, PostsDir)

\* fs.readdirSync(dirPath)
readdirSync(absPath) == IF isDirectory(absPath) THEN PostFiles ELSE <<>>

\* fs.readdirSync(dirPath).map(filePath => contentFromFile(...)), one entry
\* after the other; a throw ends the listing
RECURSIVE loadEach(_, _, _, _, _)
loadEach(st, baseDir, relPath, names, ids) ==
    IF names = <<>> \/ ~st.ok THEN [st EXCEPT !.ret = ids]
    ELSE With(contentFromFile(st, baseDir,
                              normalize(relPath \o <<"/">> \o Head(names))),
              LAMBDA s1 :
                loadEach(s1, baseDir, relPath, Tail(names),
                         IF s1.ok THEN Append(ids, s1.ret) ELSE ids))

\* contentFromDirectory: the Contents of the records of the directory's entries
contentFromDirectory(st, baseDir, relPath) ==
    loadEach(st, baseDir, relPath, readdirSync(join(baseDir, normalize(relPath))), <<>>)

\* ctx.content
contentAccessor(st, from) ==
    IF isDirectory(join(SrcDir, normalize(from)))
    THEN contentFromDirectory(st, SrcDir, from)
    ELSE contentFromFile(st, SrcDir, from)

\* The front matter of a post: no date line, an empty date, or a date
DateLines ==
    {<<>>,
     <<"date", "=", "\n">>,
     <<"date", "=", "2020-01-01", "\n">>,
     <<"date", "=", "2022-01-01", "\n">>}

FilesOf(draft, new, old) ==
    [k \in {join(SrcDir, normalize(PostsDir \o <<"/">> \o PostFiles[i])) : i \in 1..3}
           \cup {join(SrcDir, NotePath), join(SrcDir, BadPath)} |->
        CASE k = join(SrcDir, PostsDir \o <<"/">> \o PostFiles[1]) -> draft \o <<"\n", "draft">>
          [] k = join(SrcDir, PostsDir \o <<"/">> \o PostFiles[2]) -> new \o <<"\n", "new">>
          [] k = join(SrcDir, PostsDir \o <<"/">> \o PostFiles[3]) -> old \o <<"\n", "old">>
          [] k = join(SrcDir, NotePath) -> <<"t", "=", "1", "\n", "\n", "note">>
          [] OTHER -> <<"a", "=", "1", "\n">>]

\* The arguments scripts pass to content(...)
ContentArgs ==
    {PostsDir, OldPost, <<".", "/">> \o OldPost, NotePath, BadPath}

StoreInit ==
    /\ tree = NoTree
    /\ outEnabled = FALSE
    /\ q = <<>>
    /\ pc = "start"
    /\ CompilerInit
    /\ QueueIdle
    /\ ParseIdle
    /\ arr = <<>>
    /\ value = 0
    /\ tweened = [status |-> "idle"]
    /\ \E draft \in DateLines, new, old \in DateLines \ {<<"date", "=", "\n">>} :
          files = FilesOf(draft, new, old)
    /\ contentCache = EmptyObject
    /\ records = <<>>
    /\ reads = EmptyObject
    /\ returned = EmptyObject
    /\ collection = <<>>
    /\ loaded = [status |-> "idle"]
    /\ recent = [status |-> "idle"]
    /\ now = FirstNow
    /\ storeCalls = 0
    /\ IncludeIdle
    /\ CtxIdle

\* A script calls content(from); one that throws is caught by the script
Content ==
    /\ storeCalls < MaxCalls
    /\ storeCalls' = storeCalls + 1
    /\ \E from \in ContentArgs :
       \E r \in {contentAccessor(Store(contentCache, records, reads, returned), from)} :
          /\ contentCache' = r.cache
          /\ records' = r.records
          /\ reads' = r.reads
          /\ returned' = r.returned
          /\ loaded' = [status |-> IF r.ok THEN "returned" ELSE "threw",
                        from |-> from,
                        dir |-> isDirectory(join(SrcDir, normalize(from))),
                        ret |-> r.ret]
          /\ collection' = IF r.ok /\ isDirectory(join(SrcDir, normalize(from)))
                           THEN r.ret ELSE collection
    /\ UNCHANGED <<treeVars, q, compilerVars, queueVars, parseVars, tweenVars,
                   files, recent, now, includeVars, ctxVars>>

\* new Date() + "": the time in seconds, written as text
NowString(t) == "now+" \o ToString(t)

\* new Date(text): the time of a date text, in seconds
DateOf(v) ==
    CASE v = <<"2020-01-01">> -> 1
      [] v = <<"2022-01-01">> -> 2
      [] OTHER -> CHOOSE t \in FirstNow..(FirstNow + MaxTicks) : v = <<NowString(t)>>

\* if (d[by]): the record has the property, with a text that is not empty
hasField(obj, by) == <<by>> \in DOMAIN obj /\ obj[<<by>>] # <<>>

\* The callback of map, one record after the other: a record without the field
\* is assigned the time now. The clock advances by a second before the record
\* at tickAt (0: it does not advance during the call; at a record that has the
\* field: it advances with no effect on this call).
RECURSIVE mapFill(_, _, _, _, _, _)
mapFill(recs, ids, i, by, t, tickAt) ==
    IF i > Len(ids) THEN recs
    ELSE mapFill(IF hasField(recs[ids[i]], by) THEN recs
                 ELSE [recs EXCEPT ![ids[i]] =
                         Put(@, <<by>>,
                             <<NowString(IF tickAt # 0 /\ i >= tickAt THEN t + 1 ELSE t)>>)],
                 ids, i + 1, by, t, tickAt)

\* A comparator that puts the earlier date first
compareDatesAscending(left, right, by) ==
    LET ld == DateOf(left[<<by>>])
        rd == DateOf(right[<<by>>])
    IN IF ld < rd THEN -1 ELSE IF ld > rd THEN 1 ELSE 0

\* The comparator of sort
compareDates(left, right, by) ==
    LET ld == DateOf(left[<<by>>])
        rd == DateOf(right[<<by>>])
    IN IF ld < rd THEN 1 ELSE IF ld > rd THEN -1 ELSE 0

\* Array.prototype.sort, which is stable: the element goes behind every element
\* the comparator does not put behind it
RECURSIVE insertSorted(_, _, _, _)
insertSorted(sorted, x, recs, by) ==
    IF sorted = <<>> THEN <<x>>
    ELSE IF compareDates(recs[Head(sorted)], recs[x], by) > 0
    THEN <<x>> \o sorted
    ELSE <<Head(sorted)>> \o insertSorted(Tail(sorted), x, recs, by)

RECURSIVE sort(_, _, _, _)
sort(ids, sorted, recs, by) ==
    IF ids = <<>> THEN sorted
    ELSE sort(Tail(ids), insertSorted(sorted, Head(ids), recs, by), recs, by)

\* Array.prototype.slice(0, n)
sliceTo(a, n) == SubSeq(a, 1, IF n < Len(a) THEN n ELSE Len(a))

\* Contents.mostRecent: the record objects after the call, and the array returned
mostRecent(recs, ids, n, by, t, tickAt) ==
    With(mapFill(recs, ids, 1, by, t, tickAt),
         LAMBDA filled :
           [records |-> filled,
            result |-> sliceTo(sort(ids, <<>>, filled, by),
                               IF n <= 0 THEN Len(ids) ELSE n)])

\* The arguments of mostRecent; mostRecent() is mostRecent(0, 'date')
RecentNs == {-1, 0, 2, 4}
RecentFields == {"date", "updated"}

\* A script calls mostRecent(n, by) on the Contents it holds
MostRecent ==
    /\ storeCalls < MaxCalls
    /\ storeCalls' = storeCalls + 1
    /\ collection # <<>>
    /\ \E n \in RecentNs, by \in RecentFields :
       \E tickAt \in IF now < FirstNow + MaxTicks
                     THEN {0, Len(collection)}
                          \cup {i \in DOMAIN collection : ~hasField(records[collection[i]], by)}
                     ELSE {0} :
       \E r \in {mostRecent(records, collection, n, by, now, tickAt)} :
          /\ records' = r.records
          /\ recent' = [status |-> "returned", n |-> n, by |-> by, at |-> now,
                        of |-> collection, before |-> records,
                        after |-> r.records, result |-> r.result]
          /\ now' = IF tickAt = 0 THEN now ELSE now + 1
    /\ UNCHANGED <<treeVars, q, compilerVars, queueVars, parseVars, tweenVars,
                   files, contentCache, reads, returned, collection, loaded,
                   includeVars, ctxVars>>

StoreNext == Content \/ MostRecent

StoreSpec == StoreInit /\ [][StoreNext]_vars

----------------------------------------------------------------------------
(* Claims about the content store *)

NameKeys == {FileNameKey, BaseFileNameKey, RelPathKey}

\* C11: for every absolute path contentFromFile has returned one record object
\* only, the file of every absolute path was read and parsed at most once, and
\* after a load of a file the record's name fields are the ones of that call's
\* relPath.
C11_LoadMemoized ==
    /\ \A k \in DOMAIN returned : Cardinality(returned[k]) <= 1
    /\ \A k \in DOMAIN reads : reads[k] <= 1
    /\ (loaded.status = "returned" /\ ~loaded.dir) =>
          /\ contentCache[join(SrcDir, normalize(loaded.from))] = loaded.ret
          /\ \A key \in NameKeys :
                records[loaded.ret][key] = derive(EmptyObject, loaded.from)[key]

Position(seq, x) == CHOOSE i \in DOMAIN seq : seq[i] = x

InSeq(seq, x) == \E i \in DOMAIN seq : seq[i] = x

\* C12: mostRecent(n, by) returns records of the collection, each once: all of
\* them when n <= 0 and the first n (or all, if fewer) otherwise, in descending
\* order of the date of the field, no record left out being more recent than
\* one returned; a record that lacked the field when the call was made is dated
\* with the time of the call and stands before every record with an earlier
\* date. For posts dated 2020-01-01, 2022-01-01 and undated, mostRecent(2)
\* returns the undated post and then the post of 2022-01-01.
C12_MostRecentSorted ==
    recent.status = "returned" =>
        LET r == recent.result
            all == recent.of
            d(x) == DateOf(recent.after[x][<<recent.by>>])
            lacked(x) == ~hasField(recent.before[x], recent.by)
        IN /\ Len(r) = IF recent.n <= 0 \/ recent.n > Len(all) THEN Len(all) ELSE recent.n
           /\ \A i \in DOMAIN r : InSeq(all, r[i])
           /\ \A i, j \in DOMAIN r : i < j => (r[i] # r[j] /\ d(r[i]) >= d(r[j]))
           /\ \A i \in DOMAIN all : ~InSeq(r, all[i]) => \A j \in DOMAIN r : d(all[i]) <= d(r[j])
           /\ \A i \in DOMAIN all :
                lacked(all[i]) =>
                  /\ d(all[i]) >= recent.at
                  /\ \A j \in DOMAIN all :
                       (~lacked(all[j]) /\ d(all[j]) < recent.at /\ InSeq(r, all[j])) =>
                          /\ InSeq(r, all[i])
                          /\ Position(r, all[i]) < Position(r, all[j])
           /\ (/\ files = FilesOf(<<"date", "=", "2020-01-01", "\n">>,
                                  <<"date", "=", "2022-01-01", "\n">>, <<>>)
               /\ recent.n = 2 /\ recent.by = "date") =>
                 /\ Len(r) = 2
                 /\ r[1] = contentCache[join(SrcDir, OldPost)]
                 /\ r[2] = contentCache[join(SrcDir, PostsDir \o <<"/">> \o PostFiles[2])]

\* C12 happens: mostRecent(2) returned for posts dated 2020-01-01, 2022-01-01
\* and undated.
C12_Witness ==
    /\ recent.status = "returned"
    /\ recent.n = 2
    /\ recent.by = "date"
    /\ files = FilesOf(<<"date", "=", "2020-01-01", "\n">>,
                       <<"date", "=", "2022-01-01", "\n">>, <<>>)
    /\ Len(recent.result) = 2

\* C16: the properties of a cached record other than the name fields are the
\* ones parseContent gave it from the file.
C16_CachedRecordNotMutated ==
    \A k \in DOMAIN contentCache :
        LET rec == records[contentCache[k]]
            made == parseContent(files[k]).obj
        IN /\ DOMAIN rec \ NameKeys = DOMAIN made \ NameKeys
           /\ \A key \in DOMAIN rec \ NameKeys : rec[key] = made[key]

\* .md, or another extension
IsMarkdownPath(p) ==
    lastIndexOf(p, ".") >= 0 /\ substrFrom(p, lastIndexOf(p, ".")) = <<".", "md">>

\* The text parseContent took as the body, before rendering
RawBody(text) ==
    parseLoop(text, 0, [readingKey |-> TRUE, readingValue |-> FALSE,
                        key |-> <<>>, mark |-> 0, parsed |-> EmptyObject]).parsed[ContentKey]

\* C17: the body of a cached record is the Markdown rendering of the remaining
\* file text when the file is a .md file, and the remaining file text itself
\* (with or without the line break of the empty line) otherwise.
C17_BodyRenderedOnlyForMarkdown ==
    \A k \in DOMAIN contentCache :
        LET body == records[contentCache[k]][ContentKey]
        IN IF IsMarkdownPath(k[2])
           THEN body = render(RawBody(files[k]))
           ELSE body \in {RawBody(files[k]), Tail(RawBody(files[k]))}

----------------------------------------------------------------------------
(* Compiler.include on directories. A name is the sequence of its characters,
   a run of characters other than . and / written as one element. *)

AssetsDir == <<"assets">>
SubName == <<"sub">>
StylePath == <<"a", ".", "css">>
FileNames == {<<"a", ".", "css">>, <<"b", ".", "CSS">>, <<"c", ".", "html">>, <<".", "keep">>}

\* String.prototype.toLowerCase on a name
toLowerCaseName(name) ==
    [i \in DOMAIN name |->
        CASE name[i] = "CSS" -> "css"
          [] name[i] = "HTML" -> "html"
          [] OTHER -> name[i]]

\* path.extname on an entry name
extnameOfName(name) ==
    IF lastIndexOf(name, ".") <= 0 THEN <<>> ELSE substrFrom(name, lastIndexOf(name, "."))

\* fs.statSync(filePath).isDirectory(), on the include path
isIncludedDirectory(includePath) ==
    \/ includePath = AssetsDir
    \/ /\ includePath = AssetsDir \o <<"/">> \o SubName
       /\ \E i \in DOMAIN dirTree.top : dirTree.top[i] = SubName

\* fs.readdirSync(dirPath)
readdirOf(includePath) ==
    IF includePath = AssetsDir THEN dirTree.top ELSE dirTree.sub

\* The filter callback: an entry is kept unless opt.excludeExt names its
\* extension, or its whole name when it starts with a dot
shouldInclude(name, opt) ==
    IF ~opt.hasExclude THEN TRUE
    ELSE LET ext == IF name[1] = "." THEN name ELSE extnameOfName(name)
         IN \A i \in DOMAIN opt.excludeExt :
               toLowerCaseName(<<opt.excludeExt[i]>>) # toLowerCaseName(substrFrom(ext, 1))

RECURSIVE includeAny(_, _, _, _)
RECURSIVE includeEach(_, _, _, _, _)

\* The map callback, one kept entry after the other: the entry is included
\* without an opt, and its path is an element of the array returned
includeEach(st, dir, includePath, names, paths) ==
    IF names = <<>> \/ ~st.ok THEN [st EXCEPT !.ret = paths]
    ELSE With(includeAny(st, dir, includePath \o <<"/">> \o Head(names), NoOpt),
              LAMBDA s1 :
                includeEach(s1, dir, includePath, Tail(names),
                            Append(paths, includePath \o <<"/">> \o Head(names))))

\* Compiler.include: a directory is listed, filtered and mapped; a file is
\* enqueued under the current cwd. Reading opt.excludeExt of an undefined opt
\* throws a TypeError.
includeAny(st, dir, includePath, opt) ==
    IF isIncludedDirectory(includePath)
    THEN IF readdirOf(includePath) # <<>> /\ ~opt.defined
         THEN [st EXCEPT !.ok = FALSE]
         ELSE includeEach(st, dir, includePath,
                          SelectSeq(readdirOf(includePath),
                                    LAMBDA name : shouldInclude(name, opt)),
                          <<>>)
    ELSE [st EXCEPT !.q = enqueue(@, <<dir, includePath>>), !.ret = includePath]

\* The sequences of up to n different elements of S
DistinctSeqs(S, n) ==
    {t \in SeqsUpTo(S, n) : \A i, j \in DOMAIN t : i < j => t[i] # t[j]}

\* The opt arguments of the model: none, {}, and two exclusion lists
IncludeOpts ==
    {NoOpt,
     OptObject(FALSE, <<>>),
     OptObject(TRUE, <<"css">>),
     OptObject(TRUE, <<"HTML", "keep">>)}

IncludeInit ==
    /\ tree = NoTree
    /\ outEnabled = FALSE
    /\ q = <<>>
    /\ pc = "loop"
    /\ cache = EmptyObject
    /\ cwd = SrcDir
    /\ ctxPath = join("/", IndexRelPath)
    /\ written = {}
    /\ exitCode = 0
    /\ computed = EmptyObject
    /\ log = <<>>
    /\ lap = 0
    /\ QueueIdle
    /\ ParseIdle
    /\ arr = <<>>
    /\ value = 0
    /\ tweened = [status |-> "idle"]
    /\ StoreIdle
    /\ \E top \in DistinctSeqs(FileNames \cup {SubName}, MaxEntries) :
       \E sub \in IF \E i \in DOMAIN top : top[i] = SubName
                  THEN DistinctSeqs(FileNames, MaxEntries - 1) ELSE {<<>>} :
          dirTree = [top |-> top, sub |-> sub]
    /\ inclPath \in {AssetsDir, StylePath}
    /\ inclOpt \in IncludeOpts
    /\ included = [status |-> "idle"]
    /\ CtxIdle

\* A script of the document being compiled calls include(inclPath, inclOpt)
Include ==
    /\ included.status = "idle"
    /\ \E r \in {includeAny([q |-> q, ok |-> TRUE, ret |-> <<>>], cwd, inclPath, inclOpt)} :
        /\ q' = r.q
        /\ included' = [status |-> IF r.ok THEN "returned" ELSE "threw", ret |-> r.ret]
    /\ UNCHANGED <<treeVars, compilerVars, queueVars, parseVars, tweenVars, storeVars,
                   dirTree, inclPath, inclOpt, ctxVars>>

IncludeSpec == IncludeInit /\ [][Include]_vars

----------------------------------------------------------------------------
(* Claims about include *)

\* The files under a directory that an exclusion list lets through, the
\* subdirectory's files included
KeptFiles(includePath, opt) ==
    {includePath \o <<"/">> \o dirTree.top[i] :
        i \in {j \in DOMAIN dirTree.top :
                 dirTree.top[j] # SubName /\ (~opt.defined \/ shouldInclude(dirTree.top[j], opt))}}
    \cup {includePath \o <<"/">> \o SubName \o <<"/">> \o dirTree.sub[i] :
        i \in {j \in DOMAIN dirTree.sub :
                 /\ \E k \in DOMAIN dirTree.top : dirTree.top[k] = SubName
                 /\ (~opt.defined \/ shouldInclude(dirTree.sub[j], opt))}}

\* C18: include returns for every directory and every opt, and has then
\* enqueued one task under the cwd for every file of the directory tree that is
\* not excluded; on a file it enqueues that one task and returns the path.
C18_IncludeDirectoryRecurses ==
    included.status # "idle" =>
        /\ included.status = "returned"
        /\ IF isIncludedDirectory(inclPath)
           THEN /\ {q[i] : i \in DOMAIN q} = {<<cwd, f>> : f \in KeptFiles(inclPath, inclOpt)}
                /\ Len(q) = Cardinality(KeptFiles(inclPath, inclOpt))
           ELSE q = <<<<cwd, inclPath>>>> /\ included.ret = inclPath

----------------------------------------------------------------------------
(* The sandbox context of a document: Compiler.compile of .md and .html *)

\* The documents of the model, and what each binds: a Markdown file its Content
\* record, an HTML file the query handle of its own tree
Documents ==
    {[kind |-> ".md", name |-> "a.md"], [kind |-> ".md", name |-> "b.md"],
     [kind |-> ".html", name |-> "index.html"], [kind |-> ".html", name |-> "a.html"]}

\* What a script does to the globals of its context: nothing, or an assignment
\* to content, to $ or to a name of its own
Scripts == {"read", "content = 1", "$ = 1", "x = 1"}

\* A local context that is the compiler's context object itself
aliasContext(ctxs) == [ctxs |-> ctxs, local |-> 1]

\* vm.createContext({ ...this.vmCtx }): a new object with the bindings of the
\* compiler's context
createContext(ctxs) == [ctxs |-> Append(ctxs, ctxs[1]), local |-> Len(ctxs) + 1]

\* localCtx.content = content, localCtx.$ = data
bindDocument(ctxs, local, doc) ==
    IF doc.kind = ".md"
    THEN [ctxs EXCEPT ![local].content = "record of " \o doc.name]
    ELSE [ctxs EXCEPT ![local].dollar = "tree of " \o doc.name]

\* vm.runInContext(script, localCtx): an assignment to a global is a write to
\* the context object
runInContext(ctxs, local, script) ==
    CASE script = "content = 1" -> [ctxs EXCEPT ![local].content = "1"]
      [] script = "$ = 1" -> [ctxs EXCEPT ![local].dollar = "1"]
      [] script = "x = 1" -> [ctxs EXCEPT ![local].x = "1"]
      [] OTHER -> ctxs

\* The context handling of one compile of doc, whose script is given: the
\* context objects afterwards, and what the script found bound
compileInContext(ctxs, doc, script) ==
    With(createContext(ctxs),
         LAMBDA c :
           With(bindDocument(c.ctxs, c.local, doc),
                LAMBDA bound :
                  [contexts |-> runInContext(bound, c.local, script),
                   entry |-> [doc |-> doc, script |-> script,
                              content |-> bound[c.local].content,
                              dollar |-> bound[c.local].dollar,
                              x |-> bound[c.local].x]]))

ContextInit ==
    /\ tree = NoTree
    /\ outEnabled = FALSE
    /\ q = <<>>
    /\ pc = "start"
    /\ CompilerInit
    /\ QueueIdle
    /\ ParseIdle
    /\ LibIdle

\* The compiler compiles a document
CompileDocument ==
    /\ Len(ctxLog) < MaxDocs
    /\ \E doc \in Documents, script \in Scripts :
       \E r \in {compileInContext(contexts, doc, script)} :
          /\ contexts' = r.contexts
          /\ ctxLog' = Append(ctxLog, r.entry)
    /\ UNCHANGED <<treeVars, q, compilerVars, queueVars, parseVars, tweenVars,
                   storeVars, includeVars>>

ContextSpec == ContextInit /\ [][CompileDocument]_vars

\* C19: after any compiles the base context still binds content to the content
\* accessor and $ to the generic query capability, and every document's script
\* found the bindings of the base context except for its own: a Markdown file
\* its record as content, an HTML file its tree's handle as $.
C19_BindingsDoNotLeak ==
    /\ contexts[1] = BaseContext
    /\ \A i \in DOMAIN ctxLog :
          LET e == ctxLog[i]
          IN /\ e.x = BaseContext.x
             /\ IF e.doc.kind = ".md"
                THEN e.content = "record of " \o e.doc.name /\ e.dollar = BaseContext.dollar
                ELSE e.dollar = "tree of " \o e.doc.name /\ e.content = BaseContext.content

\* C19 happens: an HTML document was compiled after a Markdown file whose
\* script assigned to content.
C19_Witness ==
    /\ Len(ctxLog) = 2
    /\ ctxLog[1].doc.kind = ".md"
    /\ ctxLog[1].script = "content = 1"
    /\ ctxLog[2].doc.kind = ".html"
    /\ contexts[2].content = "1"

====
